---- MODULE Spec2Model ----
(***************************************************************************)
(* NES controller to PS/2 keyboard adapter (GamepadPS2.ino).               *)
(*                                                                         *)
(* The model follows the sketch: the output ring buffer (enqueue,          *)
(* enqueuePause, processQueue, safeWrite), the key event encoder           *)
(* (sendMake, sendBreak, releaseAll), the settings byte (saveConfig,       *)
(* loadConfig) and the per-cycle controller state machine (loop).          *)
(***************************************************************************)
EXTENDS Integers, Sequences, FiniteSets, TLC

(***************************************************************************)
(* Program constants (#define lines of the sketch).                        *)
(***************************************************************************)
NO_KEY == 0
PAUSE_CODE == 254
LAYOUT_COUNT == 4
EVENT_INTERVAL_US == 2500
QUEUE_SIZE == 64
BUTTON_COUNT == 8

PS2_A == 28
PS2_Q == 21
PS2_M == 58
PS2_O == 68
PS2_P == 77
PS2_0 == 69
PS2_1 == 22
PS2_2 == 30
PS2_3 == 38
PS2_4 == 37
PS2_5 == 46
PS2_6 == 54
PS2_7 == 61
PS2_8 == 62
PS2_9 == 70
PS2_ESC == 118
PS2_F1 == 5
PS2_ENTER == 90
PS2_EXT_LEFT == 107
PS2_EXT_RIGHT == 116
PS2_EXT_UP == 117
PS2_EXT_DOWN == 114

\* Protocol prefix bytes written as literals in sendMake / sendBreak.
EXT_PREFIX == 224
BREAK_PREFIX == 240

\* Timing literals: delay(300) in loop, delayMicroseconds(150) in safeWrite,
\* and the 12 + 8 * (6 + 6) microseconds readNES spends in delayMicroseconds.
DEBOUNCE_MS == 300
SETTLE_US == 150
NES_READ_US == 108

\* micros() and lastSendTime are unsigned long: 32 bits on the ATmega328P.
\* A 32-bit value is kept as its two 16-bit halves << hi, lo >>.
HalfMod == 65536

\* uint8_t layout = 2 (the power-on value and loadConfig's fallback).
DEFAULT_LAYOUT == 2

\* uint8_t lastNesState = 0xFF: nothing pressed (inputs are active low).
ALL_RELEASED == 255

Buttons == 0 .. (BUTTON_COUNT - 1)
Bytes == 0 .. 255

(***************************************************************************)
(* Layout tables.  Button order: A, B, Select, Start, Up, Down, Left,      *)
(* Right.  Tuples are 1-based, the sketch's arrays 0-based.                *)
(***************************************************************************)
layout_QAOPM ==
  << PS2_M, PS2_Q, PS2_ESC, PAUSE_CODE, PS2_Q, PS2_A, PS2_O, PS2_P >>
layout_QAOPM_ext ==
  << FALSE, FALSE, FALSE, FALSE, FALSE, FALSE, FALSE, FALSE >>

layout_LeftSinclair ==
  << PS2_5, PS2_4, PS2_ESC, PAUSE_CODE, PS2_4, PS2_3, PS2_1, PS2_2 >>
layout_LeftSinclair_ext ==
  << FALSE, FALSE, FALSE, FALSE, FALSE, FALSE, FALSE, FALSE >>

layout_RightSinclair ==
  << PS2_0, PS2_9, PS2_ESC, PAUSE_CODE, PS2_9, PS2_8, PS2_6, PS2_7 >>
layout_RightSinclair_ext ==
  << FALSE, FALSE, FALSE, FALSE, FALSE, FALSE, FALSE, FALSE >>

layout_Emulator ==
  << PS2_2, PS2_3, PS2_F1, PS2_ENTER,
     PS2_EXT_UP, PS2_EXT_DOWN, PS2_EXT_LEFT, PS2_EXT_RIGHT >>
layout_Emulator_ext ==
  << FALSE, FALSE, FALSE, FALSE, TRUE, TRUE, TRUE, TRUE >>

layouts ==
  << layout_QAOPM, layout_LeftSinclair, layout_RightSinclair, layout_Emulator >>
extFlags ==
  << layout_QAOPM_ext, layout_LeftSinclair_ext,
     layout_RightSinclair_ext, layout_Emulator_ext >>

\* keys[i] and ext[i] where keys = layouts[l], ext = extFlags[l].
keysAt(l, i) == layouts[l + 1][i + 1]
extAt(l, i) == extFlags[l + 1][i + 1]

PAUSE_SEQ == << 225, 20, 119, 225, 240, 20, 240, 119 >>

(***************************************************************************)
(* Bit helpers for the uint8_t arithmetic of the sketch.                   *)
(***************************************************************************)
Bit(x, i) == (x \div (2 ^ i)) % 2

\* !(state & (1 << i)): inputs are active low.
Low(x, i) == Bit(x, i) = 0

\* a | b on 8-bit values.
Or8(a, b) ==
  LET ob[i \in 0 .. 8] ==
        IF i = 8 THEN 0
        ELSE (IF Bit(a, i) = 1 \/ Bit(b, i) = 1 THEN 2 ^ i ELSE 0) + ob[i + 1]
  IN ob[0]

BoolInt(b) == IF b THEN 1 ELSE 0

(***************************************************************************)
(* Unsigned 32-bit arithmetic on << hi, lo >> halves.                      *)
(***************************************************************************)
U32(hi, lo) == << hi, lo >>

\* t + d modulo 2^32, for an int d >= 0.
Add32(t, d) ==
  LET lo == t[2] + (d % HalfMod)
      hi == t[1] + (d \div HalfMod) + (lo \div HalfMod)
  IN U32(hi % HalfMod, lo % HalfMod)

\* a - b modulo 2^32.
Sub32(a, b) ==
  LET borrow == IF a[2] < b[2] THEN 1 ELSE 0
      lo == a[2] - b[2] + borrow * HalfMod
      hi == (a[1] - b[1] - borrow + HalfMod) % HalfMod
  IN U32(hi, lo)

\* a < n for an int n below 2^16.
Less32(a, n) == a[1] = 0 /\ a[2] < n

(***************************************************************************)
(* Output queue.  A queue value q is the triple of globals                 *)
(* [queue, qHead, qTail]; the operators return the triple after the call.  *)
(***************************************************************************)
\* Variant of enqueue without the full check.
enqueue_noFullCheck(q, b) ==
  [q EXCEPT !.queue[q.qHead] = b, !.qHead = (q.qHead + 1) % QUEUE_SIZE]

enqueue(q, b) ==
  LET next == (q.qHead + 1) % QUEUE_SIZE
  IN IF next # q.qTail
       THEN [q EXCEPT !.queue[q.qHead] = b, !.qHead = next]
       ELSE q

\* The free-slot count computed at the top of enqueuePause.
pauseFree(q) ==
  IF q.qTail > q.qHead
    THEN q.qTail - q.qHead - 1
    ELSE QUEUE_SIZE - (q.qHead - q.qTail) - 1

\* The body of enqueuePause's for loop, from iteration i on.
RECURSIVE pauseLoop(_, _)
pauseLoop(q, i) ==
  IF i >= 8 THEN q
  ELSE LET n == (q.qHead + 1) % QUEUE_SIZE
       IN pauseLoop([q EXCEPT !.queue[q.qHead] = PAUSE_SEQ[i + 1], !.qHead = n],
                    i + 1)

\* Variant of enqueuePause that hands the bytes to enqueue one by one.
RECURSIVE pauseBytewise(_, _)
pauseBytewise(q, i) ==
  IF i >= 8 THEN q ELSE pauseBytewise(enqueue(q, PAUSE_SEQ[i + 1]), i + 1)

enqueuePause_bytewise(q) == pauseBytewise(q, 0)

enqueuePause(q) ==
  IF pauseFree(q) >= 8 THEN pauseLoop(q, 0) ELSE q

(***************************************************************************)
(* Key event encoder.                                                      *)
(***************************************************************************)
sendMake(q, code, ext) ==
  IF code = NO_KEY THEN q
  ELSE IF code = PAUSE_CODE THEN enqueuePause(q)
  ELSE LET q1 == IF ext THEN enqueue(q, EXT_PREFIX) ELSE q
       IN enqueue(q1, code)

\* Variant of sendBreak that puts the break prefix before the extended one.
sendBreak_prefixFirst(q, code, ext) ==
  IF code = NO_KEY THEN q
  ELSE IF code = PAUSE_CODE THEN q
  ELSE LET q1 == enqueue(q, BREAK_PREFIX)
           q2 == IF ext THEN enqueue(q1, EXT_PREFIX) ELSE q1
       IN enqueue(q2, code)

sendBreak(q, code, ext) ==
  IF code = NO_KEY THEN q
  ELSE IF code = PAUSE_CODE THEN q
  ELSE LET q1 == IF ext THEN enqueue(q, EXT_PREFIX) ELSE q
           q2 == enqueue(q1, BREAK_PREFIX)
       IN enqueue(q2, code)

(***************************************************************************)
(* Observation of the encoder calls of one cycle.  Each call is logged     *)
(* with the bytes the queue accepted for it (the slots between the old and *)
(* the new qHead), the free slots before the call and the key the slot was *)
(* holding down.  held[i] is the (code, ext) pair of the last sendMake of  *)
(* slot i that no sendBreak has followed, or NotHeld.                      *)
(***************************************************************************)
NotHeld == << >>

Resident(q) == (q.qHead - q.qTail + QUEUE_SIZE) % QUEUE_SIZE

Accepted(q0, q1) ==
  LET n == (q1.qHead - q0.qHead + QUEUE_SIZE) % QUEUE_SIZE
  IN [k \in 1 .. n |-> q1.queue[(q0.qHead + k - 1) % QUEUE_SIZE]]

\* The number of bytes the queue accepted over a sequence of logged calls.
AcceptedCount(cs) ==
  LET n[k \in 0 .. Len(cs)] == IF k = 0 THEN 0 ELSE n[k - 1] + Len(cs[k].acc)
  IN n[Len(cs)]

\* The bytes the queue accepted over a sequence of logged calls, in order.
AcceptedBytes(cs) ==
  LET b[k \in 0 .. Len(cs)] == IF k = 0 THEN << >> ELSE b[k - 1] \o cs[k].acc
  IN b[Len(cs)]

CallRec(op, i, code, ext, m, q1) ==
  [op |-> op, slot |-> i, code |-> code, ext |-> ext,
   free |-> QUEUE_SIZE - 1 - Resident(m.q),
   acc |-> Accepted(m.q, q1),
   prev |-> m.held[i]]

\* sendMake(keys[i], ext[i]); buttonState[i] = true;   (keys = layouts[l])
pressButton(m, l, i) ==
  LET q1 == sendMake(m.q, keysAt(l, i), extAt(l, i))
  IN [m EXCEPT !.q = q1,
               !.buttonState[i] = TRUE,
               !.calls = Append(m.calls,
                                CallRec("make", i, keysAt(l, i), extAt(l, i), m, q1)),
               !.held[i] = << keysAt(l, i), extAt(l, i) >>]

\* Variant of releaseButton that leaves buttonState[i] set.
releaseButton_keepsFlag(m, l, i) ==
  LET q1 == sendBreak(m.q, keysAt(l, i), extAt(l, i))
  IN [m EXCEPT !.q = q1,
               !.calls = Append(m.calls,
                                CallRec("break", i, keysAt(l, i), extAt(l, i), m, q1)),
               !.held[i] = NotHeld]

\* sendBreak(keys[i], ext[i]); buttonState[i] = false;
releaseButton(m, l, i) ==
  LET q1 == sendBreak(m.q, keysAt(l, i), extAt(l, i))
  IN [m EXCEPT !.q = q1,
               !.buttonState[i] = FALSE,
               !.calls = Append(m.calls,
                                CallRec("break", i, keysAt(l, i), extAt(l, i), m, q1)),
               !.held[i] = NotHeld]

\* releaseAll(keys, ext) with keys = layouts[l], from button i on.
RECURSIVE releaseFrom(_, _, _)
releaseFrom(m, l, i) ==
  IF i >= BUTTON_COUNT THEN m
  ELSE releaseFrom(IF m.buttonState[i] THEN releaseButton(m, l, i) ELSE m,
                   l, i + 1)

\* Variant of releaseAll that clears the flags without sending the breaks.
releaseAll_silent(m, l) ==
  [m EXCEPT !.buttonState = [i \in Buttons |-> FALSE]]

releaseAll(m, l) == releaseFrom(m, l, 0)

(***************************************************************************)
(* Persistent settings byte.                                               *)
(***************************************************************************)
\* Variant of saveConfig that shifts swapAB by one bit only.
saveConfig_shiftOne(lay, swap) == Or8(lay, BoolInt(swap) * 2)

\* configByte of saveConfig: layout | (swapAB << 2).
saveConfig(lay, swap) == Or8(lay, BoolInt(swap) * 4)

\* Variant of loadConfig that masks the layout index with 0x07.
loadConfig_wideMask(configByte) ==
  LET loadedLayout == configByte % 8
  IN IF loadedLayout < LAYOUT_COUNT
       THEN [layout |-> loadedLayout,
             swapAB |-> ((configByte \div 4) % 2 = 1),
             eeprom |-> configByte,
             wrote |-> FALSE]
       ELSE [layout |-> DEFAULT_LAYOUT,
             swapAB |-> FALSE,
             eeprom |-> saveConfig(DEFAULT_LAYOUT, FALSE),
             wrote |-> TRUE]

\* loadConfig on the stored byte: the settings it leaves and the store.
loadConfig(configByte) ==
  LET loadedLayout == configByte % 4
  IN IF loadedLayout < LAYOUT_COUNT
       THEN [layout |-> loadedLayout,
             swapAB |-> ((configByte \div 4) % 2 = 1),
             eeprom |-> configByte,
             wrote |-> FALSE]
       ELSE [layout |-> DEFAULT_LAYOUT,
             swapAB |-> FALSE,
             eeprom |-> saveConfig(DEFAULT_LAYOUT, FALSE),
             wrote |-> TRUE]

(***************************************************************************)
(* loop(), from readNES on.  s holds the globals at that point, state is   *)
(* the sampled mask.  The result holds the globals when loop returns, the  *)
(* encoder calls of the cycle, the configuration action taken (act) and    *)
(* the number of delay(300) calls made.                                    *)
(***************************************************************************)
\* Variant of pressedAt in which swapAB redirects slot A only.
pressedAt_halfSwap(state, swap, i) ==
  LET physA == Low(state, 0)
      physB == Low(state, 1)
      logicA == IF swap THEN physB ELSE physA
  IN IF i = 0 THEN logicA
     ELSE IF i = 1 THEN physB
     ELSE Low(state, i)

\* pressed for button i: A and B through swapAB, the others by bit test.
pressedAt(state, swap, i) ==
  LET physA == Low(state, 0)
      physB == Low(state, 1)
      logicA == IF swap THEN physB ELSE physA
      logicB == IF swap THEN physA ELSE physB
  IN IF i = 0 THEN logicA
     ELSE IF i = 1 THEN logicB
     ELSE Low(state, i)

\* The per-button edge detection of normal operation, from button i on.
RECURSIVE edgeFrom(_, _, _, _, _)
edgeFrom(m, l, state, swap, i) ==
  IF i >= BUTTON_COUNT THEN m
  ELSE LET pressed == pressedAt(state, swap, i)
           m1 == IF pressed /\ ~m.buttonState[i] THEN pressButton(m, l, i)
                 ELSE IF ~pressed /\ m.buttonState[i] THEN releaseButton(m, l, i)
                 ELSE m
       IN edgeFrom(m1, l, state, swap, i + 1)

normalOperation(m, l, state, swap) == edgeFrom(m, l, state, swap, 0)

\* Variant of directionLayout that tests Up first.
directionLayout_upFirst(state) ==
  IF Low(state, 4) THEN 3
  ELSE IF Low(state, 5) THEN 0
  ELSE IF Low(state, 6) THEN 1
  ELSE IF Low(state, 7) THEN 2
  ELSE LAYOUT_COUNT

\* The if / else-if chain over the direction bits: the layout it selects,
\* or LAYOUT_COUNT when no direction bit is low (layoutChanged stays false).
directionLayout(state) ==
  IF Low(state, 5) THEN 0
  ELSE IF Low(state, 6) THEN 1
  ELSE IF Low(state, 7) THEN 2
  ELSE IF Low(state, 4) THEN 3
  ELSE LAYOUT_COUNT

\* aPressed / bPressed: pressed in this sample, not in the stored one.
freshPress(state, last, i) == Low(state, i) /\ ~Low(last, i)

\* Variant of layoutSwitch that releases through the tables of the layout
\* just selected instead of the outgoing one.
layoutSwitch_newTables(r, l, newLayout) ==
  LET m2 == releaseAll([q |-> r.q, buttonState |-> r.buttonState,
                        calls |-> r.calls, held |-> r.held], newLayout)
  IN [r EXCEPT !.q = m2.q,
               !.buttonState = [i \in Buttons |-> FALSE],
               !.held = m2.held,
               !.calls = m2.calls,
               !.layout = newLayout,
               !.eeprom = saveConfig(newLayout, r.swapAB),
               !.saves = 1, !.delays = 1, !.act = "layout"]

\* Variant of layoutSwitch that goes on to normal operation (under the
\* tables of the new layout) instead of returning.
layoutSwitch_noReturn(r, l, newLayout) ==
  LET m2 == releaseAll([q |-> r.q, buttonState |-> r.buttonState,
                        calls |-> r.calls, held |-> r.held], l)
      m3 == normalOperation([m2 EXCEPT !.buttonState = [i \in Buttons |-> FALSE]],
                            newLayout, r.lastNesState, r.swapAB)
  IN [r EXCEPT !.q = m3.q,
               !.buttonState = m3.buttonState,
               !.held = m3.held,
               !.calls = m3.calls,
               !.layout = newLayout,
               !.eeprom = saveConfig(newLayout, r.swapAB),
               !.saves = 1, !.delays = 1, !.act = "layout"]

\* Variant of layoutSwitch without the saveConfig call.
layoutSwitch_noSave(r, l, newLayout) ==
  LET m2 == releaseAll([q |-> r.q, buttonState |-> r.buttonState,
                        calls |-> r.calls, held |-> r.held], l)
  IN [r EXCEPT !.q = m2.q,
               !.buttonState = [i \in Buttons |-> FALSE],
               !.held = m2.held,
               !.calls = m2.calls,
               !.layout = newLayout,
               !.saves = 0, !.delays = 1, !.act = "layout"]

\* The if (layoutChanged) block: r holds the globals before it, l indexes
\* the tables keys / ext point to (set before the chain assigned layout).
layoutSwitch(r, l, newLayout) ==
  LET m2 == releaseAll([q |-> r.q, buttonState |-> r.buttonState,
                        calls |-> r.calls, held |-> r.held], l)
  IN [r EXCEPT !.q = m2.q,
               !.buttonState = [i \in Buttons |-> FALSE],
               !.held = m2.held,
               !.calls = m2.calls,
               !.layout = newLayout,
               !.eeprom = saveConfig(newLayout, r.swapAB),
               !.saves = 1, !.delays = 1, !.act = "layout"]

\* Variant of loopBody that returns after the delay of a swap selection.
loopBody_swapReturns(s, state) ==
  LET l == s.layout
      selectPressed == Low(state, 2)
      enter == selectPressed /\ ~s.selectMode
      m0 == [q |-> s.q, buttonState |-> s.buttonState,
             calls |-> << >>, held |-> s.held]
      m1 == IF enter THEN releaseAll(m0, l) ELSE m0
      mode == IF enter THEN TRUE
              ELSE IF ~selectPressed /\ s.selectMode THEN FALSE
              ELSE s.selectMode
      aPressed == freshPress(state, s.lastNesState, 0)
      bPressed == freshPress(state, s.lastNesState, 1)
      newLayout == directionLayout(state)
      base == [q |-> m1.q, buttonState |-> m1.buttonState, held |-> m1.held,
               calls |-> m1.calls, layout |-> s.layout, swapAB |-> s.swapAB,
               selectMode |-> mode, lastNesState |-> state,
               eeprom |-> s.eeprom, saves |-> 0, delays |-> 0,
               entered |-> enter, act |-> "none"]
      normal(r) ==
        LET m2 == normalOperation([q |-> r.q, buttonState |-> r.buttonState,
                                   calls |-> r.calls, held |-> r.held],
                                  l, state, r.swapAB)
        IN [r EXCEPT !.q = m2.q, !.buttonState = m2.buttonState,
                     !.calls = m2.calls, !.held = m2.held]
  IN IF ~mode THEN normal(base)
     ELSE IF aPressed
       THEN [base EXCEPT !.swapAB = FALSE,
                         !.eeprom = saveConfig(s.layout, FALSE),
                         !.saves = 1, !.delays = 1, !.act = "swapOff"]
     ELSE IF bPressed
       THEN [base EXCEPT !.swapAB = TRUE,
                         !.eeprom = saveConfig(s.layout, TRUE),
                         !.saves = 1, !.delays = 1, !.act = "swapOn"]
     ELSE IF newLayout # LAYOUT_COUNT
       THEN layoutSwitch(base, l, newLayout)
     ELSE normal(base)

\* loop() from the sample on.
loopBody(s, state) ==
  LET l == s.layout
      selectPressed == Low(state, 2)
      enter == selectPressed /\ ~s.selectMode
      m0 == [q |-> s.q, buttonState |-> s.buttonState,
             calls |-> << >>, held |-> s.held]
      m1 == IF enter THEN releaseAll(m0, l) ELSE m0
      mode == IF enter THEN TRUE
              ELSE IF ~selectPressed /\ s.selectMode THEN FALSE
              ELSE s.selectMode
      aPressed == freshPress(state, s.lastNesState, 0)
      bPressed == freshPress(state, s.lastNesState, 1)
      newLayout == directionLayout(state)
      base == [q |-> m1.q, buttonState |-> m1.buttonState, held |-> m1.held,
               calls |-> m1.calls, layout |-> s.layout, swapAB |-> s.swapAB,
               selectMode |-> mode, lastNesState |-> state,
               eeprom |-> s.eeprom, saves |-> 0, delays |-> 0,
               entered |-> enter, act |-> "none"]
      normal(r) ==
        LET m2 == normalOperation([q |-> r.q, buttonState |-> r.buttonState,
                                   calls |-> r.calls, held |-> r.held],
                                  l, state, r.swapAB)
        IN [r EXCEPT !.q = m2.q, !.buttonState = m2.buttonState,
                     !.calls = m2.calls, !.held = m2.held]
  IN IF ~mode THEN normal(base)
     ELSE IF aPressed
       THEN normal([base EXCEPT !.swapAB = FALSE,
                                !.eeprom = saveConfig(s.layout, FALSE),
                                !.saves = 1, !.delays = 1, !.act = "swapOff"])
     ELSE IF bPressed
       THEN normal([base EXCEPT !.swapAB = TRUE,
                                !.eeprom = saveConfig(s.layout, TRUE),
                                !.saves = 1, !.delays = 1, !.act = "swapOn"])
     ELSE IF newLayout # LAYOUT_COUNT
       THEN layoutSwitch(base, l, newLayout)
     ELSE normal(base)

(***************************************************************************)
(* State.                                                                  *)
(***************************************************************************)
VARIABLES
  queue, qHead, qTail,      \* the ring buffer and its indices
  lastSendTime,             \* micros() after the last byte sent
  buttonState,              \* bool buttonState[BUTTON_COUNT]
  layout, swapAB,           \* the settings
  selectMode,               \* configuration mode
  lastNesState,             \* the previous cycle's mask
  eeprom,                   \* the byte at EEPROM_ADDR
  now,                      \* micros(), as << hi, lo >>
  clk, dat,                 \* the levels the peer lets PS2_CLOCK / PS2_DATA read
  pc,                       \* where the sketch is
  calls, held,              \* encoder calls of the last cycle; keys held per slot
  cyc,                      \* the globals (ring buffer included) at the start of
                            \* the last cycle, its mask and the action it took
  pending,                  \* bytes accepted by the queue and not yet written
  tx,                       \* observation of the transmitter (see Write)
  cycles                    \* loop bodies run so far

progVars == << queue, qHead, qTail, lastSendTime, buttonState, layout, swapAB,
               selectMode, lastNesState, eeprom >>
envVars == << now, clk, dat >>
obsVars == << calls, held, cyc, pending, tx, cycles >>
vars == << progVars, envVars, pc, obsVars >>

\* The ring buffer globals as one value.
Q == [queue |-> queue, qHead |-> qHead, qTail |-> qTail]

\* The globals loop reads, as one value.
Globals ==
  [q |-> Q, buttonState |-> buttonState, layout |-> layout, swapAB |-> swapAB,
   selectMode |-> selectMode, lastNesState |-> lastNesState,
   eeprom |-> eeprom, held |-> held]

NoCycle ==
  [state |-> ALL_RELEASED, act |-> "none", entered |-> FALSE,
   buttonState |-> [i \in Buttons |-> FALSE], layout |-> DEFAULT_LAYOUT,
   swapAB |-> FALSE, selectMode |-> FALSE, lastNesState |-> ALL_RELEASED,
   q |-> [queue |-> [j \in 0 .. (QUEUE_SIZE - 1) |-> 0], qHead |-> 0, qTail |-> 0],
   eeprom |-> DEFAULT_LAYOUT, saves |-> 0, delays |-> 0]

NoTx ==
  [writes |-> 0,            \* bytes written since the cycle began
   since |-> -1,            \* microseconds since the last write ended (-1: none yet)
   gap |-> -1,              \* the value of since when the last write began
   idleClk |-> 1,           \* the clock level when the last idle-wait ended
   idleDat |-> 1,           \* the data level when the last idle-wait ended
   byte |-> -1,             \* the last byte written
   stamp |-> U32(0, 0),     \* lastSendTime when the last write began
   ticks |-> 0,             \* Tick steps taken
   wire |-> << >>,          \* every byte written, in the order of the writes
   fed |-> << >>]           \* every byte the queue accepted, in that order

\* The globals as the sketch initialises them; the stored byte is whatever
\* an earlier session (or the factory) left.
PowerOnQueue ==
  /\ queue = [j \in 0 .. (QUEUE_SIZE - 1) |-> 0]
  /\ qHead = 0
  /\ qTail = 0
  /\ pending = 0

PowerOnRest ==
  /\ lastSendTime = U32(0, 0)
  /\ buttonState = [i \in Buttons |-> FALSE]
  /\ layout = DEFAULT_LAYOUT
  /\ swapAB = FALSE
  /\ selectMode = FALSE
  /\ lastNesState = ALL_RELEASED
  /\ now = U32(0, 0)
  /\ clk = 1
  /\ dat = 1
  /\ calls = << >>
  /\ held = [i \in Buttons |-> NotHeld]
  /\ cyc = NoCycle
  /\ tx = NoTx
  /\ cycles = 0

PowerOn ==
  /\ PowerOnQueue
  /\ PowerOnRest
  /\ pc = "setup"

\* Time passing: micros() wraps, the observed gap saturates at SinceCap.
SinceCap == 2 ^ 30
Later(t, d) == Add32(t, d)
Elapsed(since, d) ==
  IF since < 0 THEN since
  ELSE IF since + d > SinceCap THEN SinceCap ELSE since + d

(***************************************************************************)
(* setup(): loadConfig.  cyc notes the byte it read and its store writes.  *)
(***************************************************************************)
Setup ==
  /\ pc = "setup"
  /\ \E c \in {loadConfig(eeprom)} :
       /\ layout' = c.layout
       /\ swapAB' = c.swapAB
       /\ eeprom' = c.eeprom
       /\ cyc' = [cyc EXCEPT !.eeprom = eeprom,
                             !.saves = IF c.wrote THEN 1 ELSE 0]
  /\ pc' = "loop"
  /\ UNCHANGED << queue, qHead, qTail, lastSendTime, buttonState, selectMode,
                  lastNesState, envVars, calls, held, pending, tx, cycles >>

(***************************************************************************)
(* processQueue(): the two early returns, else on to safeWrite.            *)
(***************************************************************************)
\* micros() - lastSendTime in unsigned 32-bit arithmetic.
sinceLastSend(t, last) == Sub32(t, last)

\* Variant of processQueueSends that compares micros() with the deadline
\* lastSendTime + EVENT_INTERVAL_US, itself a wrapping unsigned long.
processQueueSends_deadline(q, t, last) ==
  LET due == Add32(last, EVENT_INTERVAL_US)
  IN /\ q.qHead # q.qTail
     /\ ~(t[1] < due[1] \/ (t[1] = due[1] /\ t[2] < due[2]))

processQueueSends(q, t, last) ==
  /\ q.qHead # q.qTail
  /\ ~Less32(sinceLastSend(t, last), EVENT_INTERVAL_US)

ProcessQueue ==
  /\ pc = "loop"
  /\ pc' = IF processQueueSends(Q, now, lastSendTime) THEN "waitClock" ELSE "read"
  /\ tx' = [tx EXCEPT !.writes = 0]
  /\ UNCHANGED << progVars, envVars, calls, held, cyc, pending, cycles >>

\* Variant of WaitClock with the test inverted: it waits while the clock
\* reads high.
WaitClock_inverted ==
  /\ pc = "waitClock"
  /\ clk = 0
  /\ pc' = "waitData"
  /\ UNCHANGED << progVars, envVars, obsVars >>

\* safeWrite: while (digitalRead(PS2_CLOCK) == LOW);
WaitClock ==
  /\ pc = "waitClock"
  /\ clk = 1
  /\ pc' = "waitData"
  /\ UNCHANGED << progVars, envVars, obsVars >>

\* safeWrite: while (digitalRead(PS2_DATA) == LOW);
WaitData ==
  /\ pc = "waitData"
  /\ dat = 1
  /\ pc' = "write"
  /\ tx' = [tx EXCEPT !.idleClk = clk, !.idleDat = dat]
  /\ UNCHANGED << progVars, envVars, calls, held, cyc, pending, cycles >>

\* A variant of Write that advances qTail before it takes the byte to write.
Write_tailFirst ==
  /\ pc = "write"
  /\ qTail' = (qTail + 1) % QUEUE_SIZE
  /\ now' = Later(now, SETTLE_US)
  /\ lastSendTime' = now'
  /\ tx' = [tx EXCEPT !.writes = @ + 1, !.gap = tx.since, !.since = SETTLE_US,
                      !.byte = queue[qTail'], !.stamp = lastSendTime,
                      !.wire = Append(@, queue[qTail'])]
  /\ pending' = pending - 1
  /\ pc' = "read"
  /\ UNCHANGED << queue, qHead, buttonState, layout, swapAB, selectMode,
                  lastNesState, eeprom, clk, dat, calls, held, cyc, cycles >>

\* safeWrite: keyboard.write(b); delayMicroseconds(150); then processQueue
\* advances qTail and stamps lastSendTime.
Write ==
  /\ pc = "write"
  /\ qTail' = (qTail + 1) % QUEUE_SIZE
  /\ now' = Later(now, SETTLE_US)
  /\ lastSendTime' = now'
  /\ tx' = [tx EXCEPT !.writes = @ + 1, !.gap = tx.since, !.since = SETTLE_US,
                      !.byte = queue[qTail], !.stamp = lastSendTime,
                      !.wire = Append(@, queue[qTail])]
  /\ pending' = pending - 1
  /\ pc' = "read"
  /\ UNCHANGED << queue, qHead, buttonState, layout, swapAB, selectMode,
                  lastNesState, eeprom, clk, dat, calls, held, cyc, cycles >>

(***************************************************************************)
(* The rest of loop(): readNES returns state, then the controller state    *)
(* machine runs to the end of the cycle.                                   *)
(***************************************************************************)
ReadCycle(state) ==
  /\ pc = "read"
  /\ \E r \in {loopBody(Globals, state)} :
     LET d == NES_READ_US + r.delays * DEBOUNCE_MS * 1000
     IN /\ queue' = r.q.queue
        /\ qHead' = r.q.qHead
        /\ qTail' = r.q.qTail
        /\ buttonState' = r.buttonState
        /\ layout' = r.layout
        /\ swapAB' = r.swapAB
        /\ selectMode' = r.selectMode
        /\ lastNesState' = r.lastNesState
        /\ eeprom' = r.eeprom
        /\ calls' = r.calls
        /\ held' = r.held
        /\ cyc' = [state |-> state, act |-> r.act, entered |-> r.entered,
                   buttonState |-> buttonState, layout |-> layout,
                   swapAB |-> swapAB, selectMode |-> selectMode,
                   lastNesState |-> lastNesState, q |-> Q, eeprom |-> eeprom,
                   saves |-> r.saves, delays |-> r.delays]
        /\ pending' = pending + AcceptedCount(r.calls)
        /\ now' = Later(now, d)
        /\ tx' = [tx EXCEPT !.since = Elapsed(@, d),
                            !.fed = @ \o AcceptedBytes(r.calls)]
  /\ pc' = "loop"
  /\ UNCHANGED << lastSendTime, clk, dat >>

\* One cycle, counted.
ReadInput(state) ==
  /\ ReadCycle(state)
  /\ cycles' = cycles + 1

(***************************************************************************)
(* Specification Spec: the sketch from power-on.  Between two samples at   *)
(* most one button changes (the loop samples every few hundred             *)
(* microseconds); the run is cut after MaxCycles cycles.                   *)
(***************************************************************************)
MaxCycles == 4

\* Stored bytes tried at power-on: every layout with either swapAB.
StoredBytes == 0 .. 7

\* x with bit i inverted.
Flip(x, i) == IF Bit(x, i) = 1 THEN x - 2 ^ i ELSE x + 2 ^ i

Samples(last) == {last} \cup {Flip(last, i) : i \in Buttons}

Init ==
  /\ PowerOn
  /\ eeprom \in StoredBytes

Sample ==
  /\ cycles < MaxCycles
  /\ \E state \in Samples(lastNesState) : ReadInput(state)

Next ==
  \/ Setup
  \/ ProcessQueue
  \/ WaitClock
  \/ WaitData
  \/ Write
  \/ Sample

Spec == Init /\ [][Next]_vars

(***************************************************************************)
(* Properties of the controller state machine, checked under Spec.         *)
(***************************************************************************)
AllReleased(bs) == \A i \in Buttons : ~bs[i]

\* The positions in the last cycle's call log that are about slot i.
CallsFor(i) == {k \in 1 .. Len(calls) : calls[k].slot = i}

\* C1: a cycle that switched the layout ends with every buttonState entry
\* false, and it issued exactly one release for each button that was marked
\* pressed when the cycle began (none for the others), carrying the key
\* code and extended flag of the profile that was active when it began.
C1_LayoutSwitchSafety ==
  cyc.act = "layout" =>
    /\ AllReleased(buttonState)
    /\ \A i \in Buttons :
         IF cyc.buttonState[i]
           THEN \E k \in CallsFor(i) :
                  /\ CallsFor(i) = {k}
                  /\ calls[k].op = "break"
                  /\ calls[k].code = keysAt(cyc.layout, i)
                  /\ calls[k].ext = extAt(cyc.layout, i)
           ELSE CallsFor(i) = {}

\* A layout switch that released a button whose code differs between the
\* outgoing and the incoming profile.
C1_Witness ==
  /\ cyc.act = "layout"
  /\ \E i \in Buttons :
       /\ cyc.buttonState[i]
       /\ keysAt(cyc.layout, i) # keysAt(layout, i)

\* C2: per slot the encoder calls alternate make, break, make, ... starting
\* with a make; every break carries the code and extended flag of the make
\* it follows; a slot is marked pressed exactly when a make of it is
\* outstanding, and the outstanding key is always the active profile's (the
\* profile never changes under a pressed slot).
C2_NoStuckKeys ==
  /\ \A k \in 1 .. Len(calls) :
       IF calls[k].op = "make"
         THEN calls[k].prev = NotHeld
         ELSE calls[k].prev = << calls[k].code, calls[k].ext >>
  /\ \A i \in Buttons :
       /\ buttonState[i] <=> (held[i] # NotHeld)
       /\ buttonState[i] => held[i] = << keysAt(layout, i), extAt(layout, i) >>

\* The cycle in which Select went down released a held key and, in its
\* normal operation, pressed keys again.
C2_Witness ==
  /\ cyc.entered
  /\ \E k \in 1 .. Len(calls) : calls[k].op = "break"
  /\ \E k \in 1 .. Len(calls) : calls[k].op = "make"

\* C8: with Select sampled pressed, a fresh A sets swapAB false, otherwise
\* a fresh B sets it true (layout untouched in both cases); otherwise the
\* first asserted direction of Down, Left, Right, Up selects profile
\* 0, 1, 2, 3 (swapAB untouched); otherwise neither setting changes.
C8_ConfigActionTable ==
  (cycles > 0 /\ Low(cyc.state, 2)) =>
    LET freshA == Low(cyc.state, 0) /\ ~Low(cyc.lastNesState, 0)
        freshB == Low(cyc.state, 1) /\ ~Low(cyc.lastNesState, 1)
    IN IF freshA THEN swapAB = FALSE /\ layout = cyc.layout
       ELSE IF freshB THEN swapAB = TRUE /\ layout = cyc.layout
       ELSE IF Low(cyc.state, 5) THEN layout = 0 /\ swapAB = cyc.swapAB
       ELSE IF Low(cyc.state, 6) THEN layout = 1 /\ swapAB = cyc.swapAB
       ELSE IF Low(cyc.state, 7) THEN layout = 2 /\ swapAB = cyc.swapAB
       ELSE IF Low(cyc.state, 4) THEN layout = 3 /\ swapAB = cyc.swapAB
       ELSE layout = cyc.layout /\ swapAB = cyc.swapAB

\* Select held with Up and one more direction asserted: the other direction
\* decided the profile.
C8_Witness ==
  /\ cycles > 0
  /\ Low(cyc.state, 2)
  /\ Low(cyc.state, 4)
  /\ cyc.act = "layout"
  /\ layout # 3
  /\ cyc.layout = 3

\* The globals a cycle result r leaves, as the next cycle reads them.
AsGlobals(r) ==
  [q |-> r.q, buttonState |-> r.buttonState, layout |-> r.layout,
   swapAB |-> r.swapAB, selectMode |-> r.selectMode,
   lastNesState |-> r.lastNesState, eeprom |-> r.eeprom, held |-> r.held]

ONLY_A == Flip(ALL_RELEASED, 0)
ONLY_B == Flip(ALL_RELEASED, 1)

\* The bytes a press cycle with mask press, and then a release cycle,
\* enqueue from globals g with swapAB forced to swap.
PressReleaseBytes(g, swap, press) ==
  LET r1 == loopBody([g EXCEPT !.swapAB = swap], press)
      r2 == loopBody(AsGlobals(r1), ALL_RELEASED)
  IN << Accepted(g.q, r1.q), Accepted(r1.q, r2.q) >>

\* C9: from a cycle boundary with every button released, under the active
\* profile, physical A alone with swapAB on enqueues the bytes physical B
\* alone enqueues with swapAB off, for the press and for the release that
\* follows; and likewise B with swap on against A with swap off.
C9_SwapInvariant ==
  (pc = "read" /\ AllReleased(buttonState)) =>
    /\ PressReleaseBytes(Globals, TRUE, ONLY_A)
         = PressReleaseBytes(Globals, FALSE, ONLY_B)
    /\ PressReleaseBytes(Globals, TRUE, ONLY_B)
         = PressReleaseBytes(Globals, FALSE, ONLY_A)

\* A cycle with swapAB on and only physical A down has run from an
\* all-released state and pressed slot B's key.
C9_Witness ==
  /\ cyc.state = ONLY_A
  /\ cyc.swapAB
  /\ AllReleased(cyc.buttonState)
  /\ Len(calls) = 1
  /\ calls[1].slot = 1
  /\ calls[1].acc = << keysAt(layout, 1) >>

\* C12: once setup has run, the stored byte decodes (bits 1..0, bit 2) to
\* the in-memory layout and swapAB, and loadConfig on it would restore
\* them; a cycle that changed layout or swapAB wrote the store in that
\* cycle, with the byte saveConfig forms from the new settings.
C12_SettingsPersistence ==
  (pc # "setup") =>
    /\ layout = eeprom % 4
    /\ swapAB = (Bit(eeprom, 2) = 1)
    /\ loadConfig(eeprom).layout = layout
    /\ loadConfig(eeprom).swapAB = swapAB
    /\ (cycles > 0 /\ (layout # cyc.layout \/ swapAB # cyc.swapAB)) =>
         /\ cyc.saves = 1
         /\ eeprom # cyc.eeprom
         /\ eeprom = layout + 4 * BoolInt(swapAB)

\* A cycle changed the layout and the store followed.
C12_Witness ==
  /\ cycles > 0
  /\ cyc.act = "layout"
  /\ layout # cyc.layout
  /\ eeprom # cyc.eeprom
  /\ eeprom % 4 = layout

\* C13 (as claimed): a cycle whose mask equals the mask of the cycle before
\* it issues no encoder call, leaves the ring buffer's contents and qHead
\* as they were and leaves buttonState unchanged.
C13_CycleIdempotent ==
  (cycles >= 2 /\ cyc.state = cyc.lastNesState) =>
    /\ calls = << >>
    /\ queue = cyc.q.queue
    /\ qHead = cyc.q.qHead
    /\ buttonState = cyc.buttonState

\* C14: a cycle that switched the layout made no sendMake call; every call
\* it made is a sendBreak under the profile that was active when the cycle
\* began, for a slot that was marked pressed then; every byte it enqueued
\* belongs to such a release; it stored its mask in lastNesState and left
\* no slot marked pressed.
C14_SwitchSkipsNormalOperation ==
  (cyc.act = "layout") =>
    /\ \A k \in 1 .. Len(calls) :
         /\ calls[k].op = "break"
         /\ cyc.buttonState[calls[k].slot]
         /\ calls[k].code = keysAt(cyc.layout, calls[k].slot)
         /\ calls[k].ext = extAt(cyc.layout, calls[k].slot)
         /\ LET acc == calls[k].acc
            IN acc # << >> =>
                 /\ Len(acc) >= 2
                 /\ acc[Len(acc) - 1] = BREAK_PREFIX
                 /\ acc[Len(acc)] = calls[k].code
    /\ Resident(Q) - Resident([cyc.q EXCEPT !.qTail = qTail])
         = AcceptedCount(calls)
    /\ lastNesState = cyc.state
    /\ AllReleased(buttonState)

\* A switch to another profile in a cycle whose mask has a direction and a
\* fire button down: the releases went out, no press did.
C14_Witness ==
  /\ cyc.act = "layout"
  /\ layout # cyc.layout
  /\ Low(cyc.state, 0) \/ Low(cyc.state, 1)
  /\ Len(calls) >= 2
  /\ AcceptedCount(calls) >= 4

\* The direction bit the chain of tests picks for the layout now active.
DirectionOf(l) == IF l = 0 THEN 5 ELSE IF l = 1 THEN 6 ELSE IF l = 2 THEN 7 ELSE 4

\* C15 (as claimed): a cycle switched the layout only if the direction that
\* selected it is pressed in the cycle's mask and was not pressed in the
\* mask stored by the cycle before.
C15_SwitchOnlyOnFreshDirection ==
  (cyc.act = "layout") =>
    /\ Low(cyc.state, DirectionOf(layout))
    /\ ~Low(cyc.lastNesState, DirectionOf(layout))

\* C16 (as claimed): a cycle that handled a fresh A or B press as a swap
\* selection made no sendMake call, and no encoder call at all unless it is
\* the cycle in which Select went down (whose releaseAll may release).
C16_SwapSkipsNormalOperation ==
  (cyc.act \in {"swapOff", "swapOn"}) =>
    /\ \A k \in 1 .. Len(calls) : calls[k].op # "make"
    /\ ~cyc.entered => calls = << >>

\* C16 (amended): a cycle that handled a fresh A or B press as a swap
\* selection went on to normal operation with the swapAB it had just set:
\* it ends with every buttonState entry equal to the pressed value of its
\* slot under the new swapAB, having made a sendMake call for every slot
\* that went from not marked to pressed and a sendBreak call for every slot
\* that went from marked to not pressed.  Only a layout switch skips
\* normal operation.
C16_SwapRunsNormalOperation ==
  (cyc.act \in {"swapOff", "swapOn"}) =>
    /\ Low(cyc.state, 2)
    /\ swapAB = (cyc.act = "swapOn")
    /\ \A i \in Buttons :
         LET pressed == pressedAt(cyc.state, swapAB, i)
         IN /\ buttonState[i] = pressed
            /\ (pressed /\ ~cyc.buttonState[i]) =>
                 \E k \in CallsFor(i) :
                   /\ calls[k].op = "make"
                   /\ calls[k].code = keysAt(layout, i)
            /\ (~pressed /\ cyc.buttonState[i]) =>
                 \E k \in CallsFor(i) :
                   /\ calls[k].op = "break"
                   /\ calls[k].code = keysAt(layout, i)

\* With Select held, a fresh B turned swapAB on and the same cycle pressed
\* slot A's key, which physical B now drives.
C16_Witness ==
  /\ cyc.act = "swapOn"
  /\ ~cyc.swapAB
  /\ swapAB
  /\ \E k \in 1 .. Len(calls) :
       /\ calls[k].op = "make"
       /\ calls[k].slot = 0
       /\ calls[k].acc # << >>

\* C18: a cycle that did not switch the layout ends with buttonState[i]
\* equal to the pressed value of slot i in its mask (A and B through the
\* swapAB in force when the cycle ends); in the cycle in which Select went
\* down, a slot that was marked pressed and is still pressed got a
\* sendBreak followed by a sendMake; and a buttonState entry differs from
\* its value at the start of the cycle only if the cycle made an encoder
\* call for the slot or switched the layout.
C18_ButtonStateTracksInput ==
  (cycles > 0) =>
    /\ (cyc.act # "layout") =>
         \A i \in Buttons : buttonState[i] = pressedAt(cyc.state, swapAB, i)
    /\ (cyc.entered /\ cyc.act # "layout") =>
         \A i \in Buttons :
           (cyc.buttonState[i] /\ pressedAt(cyc.state, swapAB, i)) =>
             \E j, k \in CallsFor(i) :
               /\ CallsFor(i) = {j, k}
               /\ j < k
               /\ calls[j].op = "break"
               /\ calls[k].op = "make"
    /\ \A i \in Buttons :
         (buttonState[i] # cyc.buttonState[i]) =>
           (CallsFor(i) # {} \/ cyc.act = "layout")

\* Select went down while a fire button or Start was held: the button was
\* released and pressed again in that cycle.
C18_Witness ==
  /\ cyc.entered
  /\ cyc.act = "none"
  /\ \E i \in Buttons \ {2} :
       /\ cyc.buttonState[i]
       /\ buttonState[i]
       /\ Cardinality(CallsFor(i)) = 2

(***************************************************************************)
(* Specification SpecQ: the encoder and the ring buffer at every fill      *)
(* level.  The buffer starts as a session leaves it that toggled button A  *)
(* under the default layout (bytes 0x45, 0xF0 0x45, 0x45, ...), had        *)
(* accepted m bytes in all and has n of them still resident; slots never   *)
(* written hold the 0 of the zero-initialised array.  One sendMake or      *)
(* sendBreak call is then applied, for every table entry and for the       *)
(* disabled sentinel.                                                      *)
(***************************************************************************)
MaxAccepted == 127

\* Byte k of the stream: make, break prefix, break code, make, ...
FillByte(k) ==
  IF k % 3 = 1 THEN BREAK_PREFIX ELSE keysAt(DEFAULT_LAYOUT, 0)

\* The array after the stream's first m bytes were stored.
FillQueue(m) ==
  [j \in 0 .. (QUEUE_SIZE - 1) |->
     IF j >= m THEN 0
     ELSE FillByte(j + QUEUE_SIZE * ((m - 1 - j) \div QUEUE_SIZE))]

\* The (code, ext) pairs sendMake / sendBreak are applied to.
KeyInputs ==
  {<< keysAt(l, i), extAt(l, i) >> : l \in 0 .. (LAYOUT_COUNT - 1), i \in Buttons}
    \cup {<< NO_KEY, FALSE >>, << NO_KEY, TRUE >>}

InitQ ==
  /\ \E m \in 0 .. MaxAccepted :
       \E n \in 0 .. (QUEUE_SIZE - 1) :
         /\ n <= m
         /\ m % 3 # 2
         /\ queue = FillQueue(m)
         /\ qHead = m % QUEUE_SIZE
         /\ qTail = (m - n) % QUEUE_SIZE
         /\ pending = n
  /\ PowerOnRest
  /\ eeprom = saveConfig(DEFAULT_LAYOUT, FALSE)
  /\ pc = "encode"

\* One encoder call on the buffer; the call and the buffer before it are
\* logged in calls and cyc.q.
Encode(op, code, ext) ==
  /\ pc = "encode"
  /\ \E q1 \in {IF op = "make" THEN sendMake(Q, code, ext)
                               ELSE sendBreak(Q, code, ext)} :
       /\ queue' = q1.queue
       /\ qHead' = q1.qHead
       /\ qTail' = q1.qTail
       /\ calls' = << CallRec(op, 0, code, ext, [q |-> Q, held |-> held], q1) >>
       /\ pending' = pending + Len(Accepted(Q, q1))
  /\ cyc' = [cyc EXCEPT !.q = Q]
  /\ pc' = "encoded"
  /\ UNCHANGED << lastSendTime, buttonState, layout, swapAB, selectMode,
                  lastNesState, eeprom, envVars, held, tx, cycles >>

EncodeMake == \E k \in KeyInputs : Encode("make", k[1], k[2])
EncodeBreak == \E k \in KeyInputs : Encode("break", k[1], k[2])

NextQ ==
  \/ EncodeMake
  \/ EncodeBreak

SpecQ == InitQ /\ [][NextQ]_vars

\* The documented encodings.
MakeBytes(code, ext) == IF ext THEN << EXT_PREFIX, code >> ELSE << code >>
BreakBytes(code, ext) ==
  IF ext THEN << EXT_PREFIX, BREAK_PREFIX, code >> ELSE << BREAK_PREFIX, code >>

\* The table entries that are neither the sentinel nor the pause code.
PlainKeys ==
  {k \in KeyInputs : k[1] # NO_KEY /\ k[1] # PAUSE_CODE}

\* Everything but the slots in acc and qHead is as before the call.
OnlyAppended(q0, q1, n) ==
  /\ q1.qTail = q0.qTail
  /\ q1.qHead = (q0.qHead + n) % QUEUE_SIZE
  /\ \A j \in 0 .. (QUEUE_SIZE - 1) :
       (\A k \in 0 .. (n - 1) : j # (q0.qHead + k) % QUEUE_SIZE)
         => q1.queue[j] = q0.queue[j]

\* C3: for every table entry that is neither the disabled sentinel nor the
\* pause code, with room for the whole encoding, sendMake appends exactly
\* [code] or [0xE0, code] and sendBreak exactly [0xF0, code] or
\* [0xE0, 0xF0, code]; the disabled sentinel leaves the buffer untouched.
C3_KeyEncoding ==
  (pc = "encoded") =>
    LET c == calls[1]
        want == IF c.op = "make" THEN MakeBytes(c.code, c.ext)
                                 ELSE BreakBytes(c.code, c.ext)
    IN /\ (<< c.code, c.ext >> \in PlainKeys /\ c.free >= Len(want))
            => (c.acc = want /\ OnlyAppended(cyc.q, Q, Len(want)))
       /\ (c.code = NO_KEY) => (c.acc = << >> /\ Q = cyc.q)

\* The release of an extended key into a buffer that wraps around within
\* the three bytes.
C3_Witness ==
  /\ pc = "encoded"
  /\ calls[1].op = "break"
  /\ calls[1].ext
  /\ calls[1].acc = << EXT_PREFIX, BREAK_PREFIX, PS2_EXT_UP >>
  /\ qHead = 1

\* C4: sendMake of the pause code appends the eight bytes E1 14 77 E1 F0 14
\* F0 77 contiguously when at least eight slots are free and otherwise
\* leaves the array and both indices as they were; sendBreak of the pause
\* code never changes the buffer.
C4_PauseAllOrNothing ==
  (pc = "encoded" /\ calls[1].code = PAUSE_CODE) =>
    IF calls[1].op = "make" /\ calls[1].free >= 8
      THEN calls[1].acc = PAUSE_SEQ /\ OnlyAppended(cyc.q, Q, 8)
      ELSE Q = cyc.q

\* A pause press that found between one and seven free slots.
C4_Witness ==
  /\ pc = "encoded"
  /\ calls[1].code = PAUSE_CODE
  /\ calls[1].op = "make"
  /\ calls[1].free \in 1 .. 7
  /\ Q = cyc.q

\* C5: the indices stay in 0..63 and the resident count (qHead - qTail)
\* mod 64 equals the number of bytes accepted and not yet written, which is
\* at most 63; a call made with 63 bytes resident leaves the array and both
\* indices unchanged; qHead = qTail only when nothing is pending.
C5_QueueBound ==
  /\ qHead \in 0 .. (QUEUE_SIZE - 1)
  /\ qTail \in 0 .. (QUEUE_SIZE - 1)
  /\ Resident(Q) = pending
  /\ pending \in 0 .. (QUEUE_SIZE - 1)
  /\ (qHead = qTail) => (pending = 0)
  /\ (pc = "encoded" /\ Resident(cyc.q) = QUEUE_SIZE - 1) => (Q = cyc.q)

\* A key press offered to a full buffer.
C5_Witness ==
  /\ pc = "encoded"
  /\ Resident(cyc.q) = QUEUE_SIZE - 1
  /\ calls[1].op = "make"
  /\ calls[1].code = PS2_0
  /\ calls[1].acc = << >>

\* The complete encodings a call can enqueue.
WholeEncodings(op, code, ext) ==
  IF code = NO_KEY THEN {<< >>}
  ELSE IF code = PAUSE_CODE
    THEN (IF op = "make" THEN {<< >>, PAUSE_SEQ} ELSE {<< >>})
  ELSE IF op = "make" THEN {<< >>, MakeBytes(code, ext)}
  ELSE {<< >>, BreakBytes(code, ext)}

\* C17 (as claimed): the bytes the buffer accepts for one sendMake or
\* sendBreak call are the call's complete encoding or nothing, at every
\* fill level.
C17_WholeOrNothing ==
  (pc = "encoded") =>
    calls[1].acc \in WholeEncodings(calls[1].op, calls[1].code, calls[1].ext)

(***************************************************************************)
(* The host's view, checked under Spec.  In a run of Spec the ring buffer  *)
(* never wraps, so slots 0 .. qHead - 1 hold every byte accepted since     *)
(* power-on, in order.  A keyboard host reads 0xE0 and 0xF0 as prefixes of *)
(* the code that follows; a key is identified by its code and whether the  *)
(* 0xE0 prefix came with it.                                               *)
(***************************************************************************)
AcceptedLog == [k \in 1 .. qHead |-> queue[k - 1]]

\* The keys down after the host has read bytes[k ..], starting from the
\* set down and the prefixes seen for the current code.
RECURSIVE HostReplay(_, _, _, _, _)
HostReplay(down, bytes, k, ext, brk) ==
  IF k > Len(bytes) THEN down
  ELSE IF bytes[k] = EXT_PREFIX THEN HostReplay(down, bytes, k + 1, TRUE, brk)
  ELSE IF bytes[k] = BREAK_PREFIX THEN HostReplay(down, bytes, k + 1, ext, TRUE)
  ELSE HostReplay(IF brk THEN down \ {<< bytes[k], ext >>}
                         ELSE down \cup {<< bytes[k], ext >>},
                  bytes, k + 1, FALSE, FALSE)

HostDown == HostReplay({}, AcceptedLog, 1, FALSE, FALSE)

\* C19 (as claimed): at the end of every cycle a table key other than the
\* sentinel and the pause code is down at the host exactly when some slot
\* marked pressed in buttonState maps to that key under the active profile.
C19_HostViewMatchesHeld ==
  (pc = "loop" /\ cycles > 0) =>
    \A key \in PlainKeys :
      (key \in HostDown) <=>
        (\E i \in Buttons :
           /\ buttonState[i]
           /\ key = << keysAt(layout, i), extAt(layout, i) >>)

(***************************************************************************)
(* Specification SpecCfg: the settings byte.  Power-on with any stored     *)
(* byte, setup's loadConfig, then saveConfig followed by loadConfig.       *)
(***************************************************************************)
InitCfg ==
  /\ PowerOn
  /\ eeprom \in Bytes

\* saveConfig() on the current settings; they are noted in cyc.
CfgSave ==
  /\ pc = "loop"
  /\ eeprom' = saveConfig(layout, swapAB)
  /\ cyc' = [cyc EXCEPT !.layout = layout, !.swapAB = swapAB, !.saves = 1]
  /\ pc' = "saved"
  /\ UNCHANGED << queue, qHead, qTail, lastSendTime, buttonState, layout, swapAB,
                  selectMode, lastNesState, envVars, calls, held, pending, tx,
                  cycles >>

\* loadConfig() on the byte just saved; cyc notes the byte it read and
\* counts its store writes.
CfgLoad ==
  /\ pc = "saved"
  /\ \E c \in {loadConfig(eeprom)} :
       /\ layout' = c.layout
       /\ swapAB' = c.swapAB
       /\ eeprom' = c.eeprom
       /\ cyc' = [cyc EXCEPT !.eeprom = eeprom,
                             !.saves = IF c.wrote THEN 1 ELSE 0]
  /\ pc' = "loaded"
  /\ UNCHANGED << queue, qHead, qTail, lastSendTime, buttonState, selectMode,
                  lastNesState, envVars, calls, held, pending, tx, cycles >>

NextCfg ==
  \/ Setup
  \/ CfgSave
  \/ CfgLoad

SpecCfg == InitCfg /\ [][NextCfg]_vars

\* C10: saveConfig followed by loadConfig leaves the (layout, swapAB) pair
\* that was saved, for every layout 0..3 and both swapAB values, and the
\* load does not write the store.
C10_SettingsRoundTrip ==
  (pc = "loaded") =>
    /\ layout = cyc.layout
    /\ swapAB = cyc.swapAB
    /\ cyc.saves = 0
    /\ eeprom = cyc.layout + 4 * BoolInt(cyc.swapAB)

\* The emulator layout with swapAB on came back from the store.
C10_Witness ==
  /\ pc = "loaded"
  /\ layout = 3
  /\ swapAB
  /\ cyc.layout = 3
  /\ cyc.swapAB

\* C11: every load (setup's, on any of the 256 stored bytes, and the one
\* after a save) leaves layout = b mod 4 and swapAB = bit 2 of b for the
\* byte b it read, whatever bits 7..3 of b are, writes nothing and leaves
\* the store holding b; layout is below LAYOUT_COUNT in every state.
C11_DecodeIgnoresReserved ==
  /\ layout \in 0 .. (LAYOUT_COUNT - 1)
  /\ (pc \in {"loop", "loaded"}) =>
       /\ layout = cyc.eeprom % 4
       /\ swapAB = (Bit(cyc.eeprom, 2) = 1)
       /\ cyc.saves = 0
       /\ eeprom = cyc.eeprom

\* setup has loaded a byte whose reserved bits are all set.
C11_Witness ==
  /\ pc = "loop"
  /\ cyc.eeprom = 255
  /\ eeprom = 255
  /\ layout = 3
  /\ swapAB

(***************************************************************************)
(* Specification SpecTx: the transmitter against time and the peer.  The   *)
(* sketch has been idle since setup (nothing pressed, nothing queued) for  *)
(* no time or for almost a full turn of the microsecond counter; then      *)
(* button A is pressed and released while time passes and the peer drives  *)
(* the clock and data lines as it likes.                                   *)
(***************************************************************************)
MaxTicks == 4

\* A stretch of idle cycles: eleven readNES periods.
TickUs == 11 * NES_READ_US

\* micros() when the first button goes down: 0, or 2000 short of wrapping.
StartTimes == {U32(0, 0), U32(HalfMod - 1, HalfMod - 2000)}

InitTx ==
  /\ PowerOnQueue
  /\ lastSendTime = U32(0, 0)
  /\ buttonState = [i \in Buttons |-> FALSE]
  /\ layout = DEFAULT_LAYOUT
  /\ swapAB = FALSE
  /\ selectMode = FALSE
  /\ lastNesState = ALL_RELEASED
  /\ eeprom = saveConfig(DEFAULT_LAYOUT, FALSE)
  /\ now \in StartTimes
  /\ clk = 1
  /\ dat = 1
  /\ pc = "loop"
  /\ calls = << >>
  /\ held = [i \in Buttons |-> NotHeld]
  /\ cyc = NoCycle
  /\ tx = NoTx
  /\ cycles = 0

\* Time passes while the sketch does nothing else: cycles in which
\* processQueue returns early and the sample is unchanged, or safeWrite
\* spinning on a line the peer holds low.
Tick ==
  /\ \/ pc = "loop" /\ ~processQueueSends(Q, now, lastSendTime)
     \/ pc = "waitClock" /\ clk = 0
     \/ pc = "waitData" /\ dat = 0
  /\ tx.ticks < MaxTicks
  /\ now' = Later(now, TickUs)
  /\ tx' = [tx EXCEPT !.since = Elapsed(@, TickUs), !.ticks = @ + 1]
  /\ UNCHANGED << progVars, clk, dat, pc, calls, held, cyc, pending, cycles >>

\* The peer pulls a line low or lets it go.
PeerClock ==
  /\ clk' = 1 - clk
  /\ UNCHANGED << progVars, now, dat, pc, obsVars >>

PeerData ==
  /\ dat' = 1 - dat
  /\ UNCHANGED << progVars, now, clk, pc, obsVars >>

SampleFire ==
  /\ cycles < MaxCycles
  /\ \E state \in {lastNesState, Flip(lastNesState, 0)} : ReadInput(state)

NextTx ==
  \/ ProcessQueue
  \/ WaitClock
  \/ WaitData
  \/ Write
  \/ SampleFire
  \/ Tick
  \/ PeerClock
  \/ PeerData

SpecTx == InitTx /\ [][NextTx]_vars

\* C6: processQueue writes at most one byte per cycle, and when a write
\* begins at least EVENT_INTERVAL_US microseconds have passed since the
\* previous write ended, also across the wrap of the microsecond counter.
C6_TransmitCadence ==
  /\ tx.writes <= 1
  /\ tx.gap = -1 \/ tx.gap >= EVENT_INTERVAL_US

\* A second byte went out after the counter wrapped: the previous stamp is
\* just below 2^32, the new one just above 0, with more bytes waiting.
C6_Witness ==
  /\ pc = "read"
  /\ tx.writes = 1
  /\ tx.gap >= EVENT_INTERVAL_US
  /\ tx.stamp[1] = HalfMod - 1
  /\ lastSendTime[1] = 0
  /\ qHead # qTail

\* C7 (as claimed): when safeWrite's idle-wait ends and the byte is about
\* to be written, the peer's clock and data lines both read high.
C7_IdleWhenWriting ==
  (pc = "write") => (tx.idleClk = 1 /\ tx.idleDat = 1)

(***************************************************************************)
(* Specification SpecLive: the transmitter under fair scheduling.  The     *)
(* outer loop keeps running (weak fairness of processQueue, of the write   *)
(* and of the rest of the cycle); each cycle takes time; a spin-wait of    *)
(* safeWrite polls its line, so it gets past a line that reads high again  *)
(* and again (strong fairness); the peer lets go of a line it holds low    *)
(* (weak fairness of the release).  Select and A are pressed and released  *)
(* during the first MaxPresses cycles and the input is left alone          *)
(* afterwards; cycles stops counting there.  Cycles in which nothing is    *)
(* pending and the mask is unchanged are not represented: they change      *)
(* nothing but the clock.                                                  *)
(***************************************************************************)
MaxPresses == 2

SamplesLive(last) ==
  IF cycles < MaxPresses THEN {last, Flip(last, 0), Flip(last, 2)} ELSE {last}

\* The cycles left out: the input is left alone and nothing is pending.
Parked == cycles >= MaxPresses /\ qHead = qTail

SampleLive ==
  /\ ~Parked
  /\ \E state \in SamplesLive(lastNesState) : ReadCycle(state)
  /\ cycles' = IF cycles < MaxPresses THEN cycles + 1 ELSE cycles

NextLive ==
  \/ ProcessQueue
  \/ WaitClock
  \/ WaitData
  \/ Write
  \/ SampleLive
  \/ PeerClock
  \/ PeerData

\* The steps of processQueue that wait for nothing, and the two spin-waits
\* of safeWrite.  At any point of the sketch at most one of them is enabled.
Runs == ProcessQueue \/ Write
Spins == WaitClock \/ WaitData

\* SampleLive is enabled exactly when pc = "read" and not Parked, and no
\* other step changes pc there, so its weak fairness is that the sketch
\* does not stay at such a point for ever.
Fairness ==
  /\ WF_vars(Runs)
  /\ SF_vars(Spins)
  /\ WF_vars(PeerClock /\ clk = 0)
  /\ WF_vars(PeerData /\ dat = 0)
  /\ []<>(pc # "read" \/ Parked)

SpecLive == InitTx /\ [][NextLive]_vars /\ Fairness

\* C20: whenever a byte is pending, a byte is eventually written (the
\* queue being first-in first-out and bounded, every accepted byte gets
\* its turn), also across the 300 ms delay of a swap selection; and while
\* safeWrite waits on a line the peer holds low, the sketch stays in that
\* wait: it writes nothing and samples no input.
C20_DrainLiveness ==
  /\ (qHead # qTail /\ tx.writes = 0) ~> (tx.writes = 1)
  /\ [][((pc = "waitClock" /\ clk = 0) \/ (pc = "waitData" /\ dat = 0)) =>
         (pc' = pc /\ qTail' = qTail /\ lastNesState' = lastNesState
            /\ cyc' = cyc)]_vars

\* A byte accepted before the 300 ms delay of a swap selection was written
\* in the cycle after it, with more bytes waiting.
C20_Witness ==
  /\ pc = "read"
  /\ tx.writes = 1
  /\ cyc.delays = 1
  /\ cyc.act = "swapOff"
  /\ qHead # qTail

(***************************************************************************)
(* Specification SpecFifo: the sketch from power-on, the peer leaving the  *)
(* lines idle.  In the first MaxWindow cycles any of A and Start may       *)
(* change between two samples; then the player taps A and Start together  *)
(* (a key, the eight bytes of the pause sequence, and A's release) every   *)
(* TapPeriod cycles, MaxTaps times, faster than processQueue drains the    *)
(* ring (a byte every 2.5 ms), so that the ring fills up, bytes are        *)
(* dropped and qHead wraps round; QuietPeriods periods without input let   *)
(* the writes catch up, and MaxWindow cycles with A and Start free again   *)
(* end the run.                                                            *)
(***************************************************************************)
TapPeriod == 50
MaxTaps == 10
QuietPeriods == 32
MaxWindow == 3

WarmCycles == (MaxTaps + QuietPeriods) * TapPeriod

\* The mask of cycle c of the tapping: A and Start are down in the first
\* cycle of each of the first MaxTaps periods.
TapInput(c) ==
  IF c % TapPeriod = 0 /\ c \div TapPeriod < MaxTaps
  THEN Flip(Flip(ALL_RELEASED, 0), 3)
  ELSE ALL_RELEASED

SamplesFifo(last) ==
  IF cycles >= MaxWindow /\ cycles < MaxWindow + WarmCycles
  THEN {TapInput(cycles - MaxWindow)}
  ELSE {last, Flip(last, 0), Flip(last, 3)}

SampleFifo ==
  /\ cycles < WarmCycles + 2 * MaxWindow
  /\ \E state \in SamplesFifo(lastNesState) : ReadInput(state)

NextFifo ==
  \/ ProcessQueue
  \/ WaitClock
  \/ WaitData
  \/ Write
  \/ SampleFifo

SpecFifo == InitTx /\ [][NextFifo]_vars

\* C21: the bytes written to the wire are, in order and with none added,
\* left out, repeated or moved, a prefix of the bytes the queue accepted;
\* the accepted bytes not yet written are the ones resident in the ring, in
\* order from qTail to qHead (each is in its slot once qHead has passed it);
\* qTail moves only by one slot, in the step that writes the byte it was
\* on; and qHead moves only over slots that hold the bytes just accepted,
\* in a step that leaves qTail and the wire alone.
C21_FifoTransmission ==
  /\ [](/\ Len(tx.wire) <= Len(tx.fed)
        /\ tx.wire = SubSeq(tx.fed, 1, Len(tx.wire))
        /\ Resident(Q) = Len(tx.fed) - Len(tx.wire)
        /\ \A k \in 1 .. Resident(Q) :
              queue[(qTail + k - 1) % QUEUE_SIZE] = tx.fed[Len(tx.wire) + k])
  /\ [][qTail' # qTail =>
          /\ qTail' = (qTail + 1) % QUEUE_SIZE
          /\ tx.wire' = Append(tx.wire, queue[qTail])
          /\ tx.fed' = tx.fed
          /\ qHead' = qHead]_vars
  /\ [][qHead' # qHead =>
          /\ tx.fed' = tx.fed \o Accepted(Q, Q')
          /\ tx.wire' = tx.wire
          /\ qTail' = qTail]_vars

\* A write has just happened after both indices wrapped round the ring:
\* more bytes are written than the ring has slots, so the byte came from a
\* slot used a second time, and accepted bytes are still waiting behind it.
C21_Witness ==
  /\ pc = "read"
  /\ tx.writes = 1
  /\ Len(tx.wire) > QUEUE_SIZE
  /\ Len(tx.fed) > Len(tx.wire)
  /\ qHead # qTail
  /\ tx.byte = tx.fed[Len(tx.wire)]

====
